---- MODULE Spec2Model ----
(***************************************************************************)
(* A model of src/Parallax.js: one Parallax instance on one page.          *)
(*                                                                         *)
(* The page (window and element geometry, the window's listener lists)     *)
(* and the instance (`this`) are the state.  Numbers are exact: the        *)
(* quotient of getOffsetPercentage is a fraction <<num, den>> in lowest    *)
(* terms with den > 0, so that "is an integer" and "lies in [0,1]" are     *)
(* decided by the arithmetic of the code and not by a rounding choice.     *)
(* A style string "center " + x + "px" is the tuple <<"center", x, "px">>. *)
(* An option that the caller did not pass (undefined) is the empty tuple   *)
(* <<>>, an option passed with value v is <<v>>.                           *)
(***************************************************************************)
EXTENDS Integers, Sequences, FiniteSets

VARIABLES
    pc,                 \* "page": before `new Parallax(cfg)`; "live"; "threw"
    cfg,                \* the options object (the constructor writes to it)
    this,               \* the instance's fields
    pageYOffset,        \* window.pageYOffset
    innerHeight,        \* window.innerHeight
    innerWidth,         \* window.innerWidth
    offsetTop,          \* element.offsetTop
    offsetHeight,       \* element.offsetHeight
    backgroundPosition, \* element.style.backgroundPosition
    transition,         \* element.style.transition
    scrollListeners,    \* the window's "scroll" listener list
    resizeListeners,    \* the window's "resize" listener list
    pending,            \* the debounced resize handler has a timer running
    built,              \* history: what the constructor was given and read
    narrow,             \* history: width < breakpoint at construction and since
    last                \* history: the call of parallax or of the resize handler
                        \* that has just happened, if one has

vars == <<pc, cfg, this, pageYOffset, innerHeight, innerWidth, offsetTop,
          offsetHeight, backgroundPosition, transition, scrollListeners,
          resizeListeners, pending, built, narrow, last>>

----------------------------------------------------------------------------
(* Bounds of the model. *)
MaxTop == 2
MaxHeight == 1
MaxWinHeight == 2
MaxScroll == 3

(* Defaults of the constructor. *)
DefaultDistance == 200
DefaultBreakpoint == 1024
DefaultThrottling == 15

(* The worked scenario: a tall page with the element below the fold. *)
Example == [offsetTop |-> 1000, offsetHeight |-> 400, innerHeight |-> 800,
            scrollTop |-> 800]

\* The element lies below the top of the page.
OffsetTops == 1 .. MaxTop
Heights == 1 .. MaxHeight
WinHeights == 1 .. MaxWinHeight
ScrollTops == 0 .. MaxScroll
\* Two widths one pixel apart: at and above the default breakpoint, below and
\* at a breakpoint configured one pixel higher.
Widths == {DefaultBreakpoint, DefaultBreakpoint + 1}

----------------------------------------------------------------------------
(* Numbers. *)
Abs(n) == IF n < 0 THEN -n ELSE n

RECURSIVE GCD(_, _)
GCD(a, b) == IF b = 0 THEN a ELSE GCD(b, a % b)

\* n / d for d # 0, in lowest terms with a positive denominator.
Frac(n, d) ==
    LET g == GCD(Abs(n), Abs(d))
        s == IF d < 0 THEN -1 ELSE 1
    IN  <<(s * n) \div g, (s * d) \div g>>

IsInteger(q) == q[2] = 1
Leq(p, q) == p[1] * q[2] <= q[1] * p[2]

\* JS `opt || d` for a numeric option: undefined and 0 are falsy.
OrDefault(opt, d) == IF opt = <<>> \/ opt[1] = 0 THEN d ELSE opt[1]

----------------------------------------------------------------------------
(* The window's listener lists (EventTarget): a callback already in the     *)
(* list is not added a second time; removing takes out the entry with that *)
(* callback.                                                               *)
Callbacks(list) == {list[i] : i \in 1 .. Len(list)}

addEventListener(list, fn) ==
    IF fn \in Callbacks(list) THEN list ELSE Append(list, fn)

removeEventListener(list, fn) == SelectSeq(list, LAMBDA g : g # fn)

\* helpers.throttle(fn, wait, ctx): one wrapper function, made once.  A call
\* of the wrapper is forwarded to fn unless the wrapper is inside its
\* interval.  The number of calls forwarded to fn when the wrappers in `list`
\* are called for one event; `inside` says whether the interval is running.
throttle(list, inside) ==
    IF inside THEN 0 ELSE Cardinality(Callbacks(list))

\* helpers.debounce(fn, wait, ctx): a call starts (or restarts) the timer.
debounce(list, timer) == timer \/ list # <<>>

----------------------------------------------------------------------------
(* Parallax.prototype *)

\* Variants of getOffsetPercentage: the two bounds taken for each other, and
\* the range taken with the other sign.
getOffsetPercentageSwapped(scrollTop, height, windowHeight, top) ==
    LET lowerBound == top - windowHeight
        upperBound == top + height
        range == upperBound - lowerBound
    IN  Frac(scrollTop - lowerBound, range)

getOffsetPercentageSigned(scrollTop, height, windowHeight, top) ==
    LET lowerBound == top + height
        upperBound == top - windowHeight
        range == lowerBound - upperBound
    IN  Frac(scrollTop - lowerBound, range)

\* getOffsetPercentage, with the four values it reads as parameters.
\* range # 0 here: the model's windows and elements have positive height.
getOffsetPercentage(scrollTop, height, windowHeight, top) ==
    LET lowerBound == top + height
        upperBound == top - windowHeight
        range == upperBound - lowerBound
    IN  Frac(scrollTop - lowerBound, range)

\* Variants of doMovement: the travel added instead of subtracted, and the
\* offset rounded down to a whole pixel.
doMovementAdded(self, scrollTop, height, windowHeight, top) ==
    LET ratio == getOffsetPercentage(scrollTop, height, windowHeight, top)
        offset == Frac(self.startOffset * ratio[2] + ratio[1] * self.distance,
                       ratio[2])
    IN  <<"center", offset, "px">>

doMovementRounded(self, scrollTop, height, windowHeight, top) ==
    LET ratio == getOffsetPercentage(scrollTop, height, windowHeight, top)
        offset == Frac(self.startOffset * ratio[2] - ratio[1] * self.distance,
                       ratio[2])
    IN  <<"center", <<offset[1] \div offset[2], 1>>, "px">>

\* doMovement: the string it assigns to element.style.backgroundPosition.
\* relativeOffset is computed by the code and never used.
doMovement(self, scrollTop, height, windowHeight, top) ==
    LET relativeOffset == IF top < windowHeight THEN scrollTop + top
                          ELSE scrollTop
        ratio == getOffsetPercentage(scrollTop, height, windowHeight, top)
        offset == Frac(self.startOffset * ratio[2] - ratio[1] * self.distance,
                       ratio[2])
    IN  <<"center", offset, "px">>

\* Variant of parallax: the bounds included.
parallaxInclusive(self, absoluteOffset) ==
    absoluteOffset >= self.start /\ absoluteOffset <= self.stop

\* parallax: TRUE when it calls doMovement.
parallax(self, absoluteOffset) ==
    absoluteOffset > self.start /\ absoluteOffset < self.stop

\* Variant of register: a new wrapper function for every call.
registerFresh(self, list) ==
    addEventListener(list, self.registerMe + Len(list))

register(self, list) == addEventListener(list, self.registerMe)

unregister(self, list) == removeEventListener(list, self.registerMe)

\* Variant of the handler: registered from the breakpoint on.
handlerFromBreakpoint(self, list, width) ==
    IF width >= self.breakpoint THEN register(self, list)
    ELSE unregister(self, list)

\* The handler of handleRegisters: the scroll listener list it leaves.
handler(self, list, width) ==
    IF width > self.breakpoint THEN register(self, list)
    ELSE unregister(self, list)

----------------------------------------------------------------------------
(* The constructor *)
startBound(c, top, windowHeight) == top - windowHeight + OrDefault(c.start, 0)

\* Variant of stopBound: the stop bias added.
stopBoundBiased(c, top, height) == top + height + OrDefault(c.stop, 0)

stopBound(c, top, height) == top + height

Parallax(c, top, height, windowHeight) ==
    [startOffset |-> OrDefault(c.startOffset, 0),
     distance    |-> OrDefault(c.distance, DefaultDistance),
     start       |-> startBound(c, top, windowHeight),
     stop        |-> stopBound(c, top, height),
     breakpoint  |-> OrDefault(c.breakpoint, DefaultBreakpoint),
     throttling  |-> OrDefault(c.throttling, DefaultThrottling),
     cssTrans    |-> IF c.cssTrans = <<>> THEN FALSE ELSE c.cssTrans[1],
     registerMe  |-> 1]

----------------------------------------------------------------------------
NoThis == [startOffset |-> 0, distance |-> 0, start |-> 0, stop |-> 0,
           breakpoint |-> 0, throttling |-> 0, cssTrans |-> FALSE,
           registerMe |-> 0]
NoBuilt == [offsetTop |-> 0, offsetHeight |-> 0, innerHeight |-> 0,
            start |-> <<>>, stop |-> <<>>]
\* n: for the resize handler, the entries of the scroll listener list before
\* the call.
Idle == [op |-> "idle", n |-> 0, calls |-> 0, moved |-> 0, ratio |-> <<>>]

\* The options objects explored: no element, the defaults, an early start
\* with a start offset and a short distance, and a late start with a stop
\* bias, a breakpoint and a CSS transition.
Defaults == [element |-> TRUE, startOffset |-> <<>>, distance |-> <<>>,
             start |-> <<>>, stop |-> <<>>, breakpoint |-> <<>>,
             throttling |-> <<>>, cssTrans |-> <<>>]

Configs ==
    { Defaults,
      [Defaults EXCEPT !.element = FALSE],
      [Defaults EXCEPT !.start = <<-2>>, !.startOffset = <<-50>>,
                       !.distance = <<3>>],
      [Defaults EXCEPT !.start = <<1>>, !.stop = <<1>>,
                       !.breakpoint = <<DefaultBreakpoint + 1>>,
                       !.throttling = <<30>>, !.cssTrans = <<TRUE>>] }

Geometry ==
    [offsetTop : OffsetTops, offsetHeight : Heights, innerHeight : WinHeights,
     scrollTop : ScrollTops]

\* A page that has loaded, scrolled to g.scrollTop, before `new Parallax(c)`.
Page(c, g) ==
    /\ pc = "page"
    /\ cfg = c
    /\ this = NoThis
    /\ offsetTop = g.offsetTop
    /\ offsetHeight = g.offsetHeight
    /\ innerHeight = g.innerHeight
    /\ pageYOffset = g.scrollTop
    /\ innerWidth \in Widths
    /\ backgroundPosition = <<>>
    /\ transition = <<>>
    /\ scrollListeners = <<>>
    /\ resizeListeners = <<>>
    /\ pending = FALSE
    /\ built = NoBuilt
    /\ narrow = FALSE
    /\ last = Idle

Init == \E c \in Configs, g \in Geometry : Page(c, g)

\* The page of the worked scenario.
InitExample == \E c \in Configs : Page(c, Example)

\* new Parallax(cfg) without an element throws before anything is written.
NewThrows ==
    /\ pc = "page"
    /\ ~cfg.element
    /\ pc' = "threw"
    /\ UNCHANGED <<cfg, this, pageYOffset, innerHeight, innerWidth, offsetTop,
                   offsetHeight, backgroundPosition, transition,
                   scrollListeners, resizeListeners, pending, built,
                   narrow, last>>

\* new Parallax(cfg): the constructor and init().
New ==
    /\ pc = "page"
    /\ cfg.element
    /\ LET self == Parallax(cfg, offsetTop, offsetHeight, innerHeight)
           moves == parallax(self, pageYOffset)
           written == doMovement(self, pageYOffset, offsetHeight, innerHeight,
                                 offsetTop)
       IN  /\ cfg' = [cfg EXCEPT !.start = <<self.start>>,
                                 !.stop = <<self.stop>>]
           /\ this' = self
           \* init: handleRegisters
           /\ scrollListeners' = handler(self, scrollListeners, innerWidth)
           /\ resizeListeners' = Append(resizeListeners, "handler")
           \* init: the start position, then parallax once
           /\ backgroundPosition' =
                IF moves THEN written
                ELSE <<"center", <<self.startOffset, 1>>, "px">>
           /\ transition' =
                IF self.cssTrans
                THEN <<"background-position: ", Frac(1, self.throttling), "s">>
                ELSE transition
           /\ built' = [offsetTop |-> offsetTop, offsetHeight |-> offsetHeight,
                        innerHeight |-> innerHeight, start |-> cfg.start,
                        stop |-> cfg.stop]
           /\ narrow' = (innerWidth < self.breakpoint)
           /\ last' = [op |-> "new", n |-> 0, calls |-> 1,
                       moved |-> IF moves THEN 1 ELSE 0,
                       ratio |-> IF moves
                                 THEN getOffsetPercentage(pageYOffset,
                                        offsetHeight, innerHeight, offsetTop)
                                 ELSE <<>>]
    /\ pc' = "live"
    /\ UNCHANGED <<pageYOffset, innerHeight, innerWidth, offsetTop,
                   offsetHeight, pending>>

\* The page scrolls to s; the window dispatches "scroll" to its listeners,
\* inside the throttling interval of an earlier event or not (time is not
\* modelled: either can be the case whenever a wrapper is there to be called).
\* Every forwarded call runs parallax on the same page, so they agree on
\* whether doMovement runs and on what it writes.
Scroll(s, inside) ==
    /\ pc = "live"
    /\ s # pageYOffset
    /\ inside => scrollListeners # <<>>
    /\ pageYOffset' = s
    /\ LET calls == throttle(scrollListeners, inside)
           moves == calls > 0 /\ parallax(this, s)
       IN  /\ backgroundPosition' =
                IF moves
                THEN doMovement(this, s, offsetHeight, innerHeight, offsetTop)
                ELSE backgroundPosition
           /\ last' =
                IF calls = 0 THEN Idle
                ELSE [op |-> "scroll", n |-> 0, calls |-> calls,
                      moved |-> IF moves THEN calls ELSE 0,
                      ratio |-> IF moves
                                THEN getOffsetPercentage(s, offsetHeight,
                                       innerHeight, offsetTop)
                                ELSE <<>>]
    /\ UNCHANGED <<pc, cfg, this, innerHeight, innerWidth, offsetTop,
                   offsetHeight, transition, scrollListeners, resizeListeners,
                   pending, built, narrow>>

\* The window is resized; it dispatches "resize" to the debounced handler.
Resize(w, h) ==
    /\ pc = "live"
    /\ <<w, h>> # <<innerWidth, innerHeight>>
    /\ innerWidth' = w
    /\ innerHeight' = h
    /\ pending' = debounce(resizeListeners, pending)
    /\ narrow' = (narrow /\ w < this.breakpoint)
    /\ last' = Idle
    /\ UNCHANGED <<pc, cfg, this, pageYOffset, offsetTop, offsetHeight,
                   backgroundPosition, transition, scrollListeners,
                   resizeListeners, built>>

\* The debounce timer fires: the handler of handleRegisters runs.
ResizeHandler ==
    /\ pending
    /\ pending' = FALSE
    /\ scrollListeners' = handler(this, scrollListeners, innerWidth)
    /\ last' = [Idle EXCEPT !.op = "handler", !.n = Len(scrollListeners)]
    /\ UNCHANGED <<pc, cfg, this, pageYOffset, innerHeight, innerWidth,
                   offsetTop, offsetHeight, backgroundPosition, transition,
                   resizeListeners, built, narrow>>

\* A caller calls register() or unregister() on the instance.
Register ==
    /\ pc = "live"
    /\ scrollListeners' = register(this, scrollListeners)
    /\ last' = Idle
    /\ UNCHANGED <<pc, cfg, this, pageYOffset, innerHeight, innerWidth,
                   offsetTop, offsetHeight, backgroundPosition, transition,
                   resizeListeners, pending, built, narrow>>

Unregister ==
    /\ pc = "live"
    /\ scrollListeners' = unregister(this, scrollListeners)
    /\ last' = Idle
    /\ UNCHANGED <<pc, cfg, this, pageYOffset, innerHeight, innerWidth,
                   offsetTop, offsetHeight, backgroundPosition, transition,
                   resizeListeners, pending, built, narrow>>

\* The layout changes (content above the element grows or shrinks): the
\* element moves.
Reflow(t) ==
    /\ pc = "live"
    /\ t # offsetTop
    /\ offsetTop' = t
    /\ last' = Idle
    /\ UNCHANGED <<pc, cfg, this, pageYOffset, innerHeight, innerWidth,
                   offsetHeight,
                   backgroundPosition, transition, scrollListeners,
                   resizeListeners, pending, built, narrow>>

Next ==
    \/ NewThrows
    \/ New
    \/ \E s \in ScrollTops, inside \in BOOLEAN : Scroll(s, inside)
    \/ \E w \in Widths, h \in WinHeights : Resize(w, h)
    \/ ResizeHandler
    \/ Register
    \/ Unregister
    \/ \E t \in OffsetTops : Reflow(t)

Spec == Init /\ [][Next]_vars

\* The page of the worked scenario is tall: it also scrolls to the scenario's
\* scroll position.
NextExample ==
    \/ Next
    \/ \E inside \in BOOLEAN : Scroll(Example.scrollTop, inside)

SpecExample == InitExample /\ [][NextExample]_vars

----------------------------------------------------------------------------
(* What the last call read and wrote. *)
Moved == pc = "live" /\ last.moved >= 1
Triggered == pc = "live" /\ last.op \in {"new", "scroll"}
Registered == this.registerMe \in Callbacks(scrollListeners)
LowerBound == offsetTop + offsetHeight
UpperBound == offsetTop - innerHeight
Range == UpperBound - LowerBound
GeometryAsBuilt ==
    /\ offsetTop = built.offsetTop
    /\ offsetHeight = built.offsetHeight
    /\ innerHeight = built.innerHeight
StartBias == IF built.start = <<>> THEN 0 ELSE built.start[1]
StopBias == IF built.stop = <<>> THEN 0 ELSE built.stop[1]
Written == backgroundPosition[2]
StartPosition == <<"center", <<this.startOffset, 1>>, "px">>
Between(q, a, b) ==
    \/ Leq(<<a, 1>>, q) /\ Leq(q, <<b, 1>>)
    \/ Leq(<<b, 1>>, q) /\ Leq(q, <<a, 1>>)

\* C1: a call of parallax (from a forwarded scroll event or from init) at
\* scroll position s calls doMovement once if start < s < stop and not at all
\* if s <= start or s >= stop.
C1_GateStrict ==
    Triggered =>
        /\ last.calls = 1
        /\ (this.start < pageYOffset /\ pageYOffset < this.stop)
              => last.moved = 1
        /\ (pageYOffset <= this.start \/ pageYOffset >= this.stop)
              => last.moved = 0

\* A forwarded scroll event exactly at the start bound: no movement.
C1_Witness ==
    /\ pc = "live"
    /\ last.op = "scroll"
    /\ last.calls = 1
    /\ pageYOffset = this.start
    /\ last.moved = 0

\* C2: after construction and after every run of the resize handler, the
\* scroll listener is registered iff the width that run saw is strictly
\* greater than breakpoint.
C2_RegisteredIffWider ==
    (pc = "live" /\ last.op \in {"new", "handler"}) =>
        (Registered <=> innerWidth > this.breakpoint)

\* The resize handler ran at a width equal to the breakpoint on a registered
\* instance: the listener is gone.
C2_Witness ==
    /\ pc = "live"
    /\ last.op = "handler"
    /\ last.n = 1
    /\ innerWidth = this.breakpoint
    /\ scrollListeners = <<>>

\* C3: register is idempotent: whatever register and unregister calls came
\* before, the list holds the throttled handler at most once, one scroll event
\* makes at most one call of parallax, a further register leaves one entry,
\* and one unregister leaves none.
C3_RegisterIdempotent ==
    pc = "live" =>
        /\ Len(SelectSeq(scrollListeners, LAMBDA f : f = this.registerMe)) <= 1
        /\ last.calls <= 1
        /\ Len(register(this, scrollListeners)) = 1
        /\ unregister(this, scrollListeners) = <<>>

\* The resize handler ran above the breakpoint on a registered instance, so
\* register ran a second time: still one entry.
C3_Witness ==
    /\ pc = "live"
    /\ last.op = "handler"
    /\ last.n = 1
    /\ innerWidth > this.breakpoint
    /\ scrollListeners = <<this.registerMe>>

\* The worked scenario: the element at 1000, 400 high, in a window 800 high,
\* built with the default options.
ExampleBuilt ==
    /\ pc = "live"
    /\ built.offsetTop = Example.offsetTop
    /\ built.offsetHeight = Example.offsetHeight
    /\ built.innerHeight = Example.innerHeight
    /\ built.start = <<>>
    /\ built.stop = <<>>
    /\ this.startOffset = 0
    /\ this.distance = DefaultDistance
ExampleMoved ==
    /\ ExampleBuilt
    /\ Moved
    /\ GeometryAsBuilt
    /\ pageYOffset = Example.scrollTop

\* What doMovement wrote is startOffset - ratio * distance, for the ratio
\* (scrollTop - lowerBound) / range of the geometry at that call.
LinearInRatio ==
    Moved =>
        /\ backgroundPosition = <<"center", Written, "px">>
        /\ last.ratio[1] * Range = last.ratio[2] * (pageYOffset - LowerBound)
        /\ Written[1] * last.ratio[2] =
              Written[2] * (this.startOffset * last.ratio[2]
                            - last.ratio[1] * this.distance)

\* C4 as stated: doMovement writes startOffset - ratio * distance; in the
\* worked scenario start = 200, stop = 1400, and at scrollTop 800 the style
\* written is "center -150px".
C4_Original ==
    /\ LinearInRatio
    /\ ExampleBuilt => this.start = 200 /\ this.stop = 1400
    /\ ExampleMoved => backgroundPosition = <<"center", <<-150, 1>>, "px">>

\* C4, amended: as C4, but in the worked scenario the ratio at scrollTop 800
\* is (800 - 1400) / (200 - 1400) = 1/2 and the style written is
\* "center -100px".
C4_Amended ==
    /\ LinearInRatio
    /\ ExampleBuilt => this.start = 200 /\ this.stop = 1400
    /\ ExampleMoved =>
          /\ last.ratio = <<1, 2>>
          /\ backgroundPosition = <<"center", <<-100, 1>>, "px">>

\* The worked scenario after a forwarded scroll event to 800.
C4_Witness == ExampleMoved /\ last.op = "scroll"

\* C5: getOffsetPercentage is 0 at scrollTop = offsetTop + height and 1 at
\* scrollTop = offsetTop - windowHeight, for positive height and windowHeight:
\* for the geometry of every reachable page, and in every call made there.
C5_RatioAtBounds ==
    (offsetHeight > 0 /\ innerHeight > 0) =>
        /\ getOffsetPercentage(LowerBound, offsetHeight, innerHeight,
                               offsetTop) = <<0, 1>>
        /\ getOffsetPercentage(UpperBound, offsetHeight, innerHeight,
                               offsetTop) = <<1, 1>>
        /\ (Moved /\ pageYOffset = LowerBound) => last.ratio = <<0, 1>>
        /\ (Moved /\ pageYOffset = UpperBound) => last.ratio = <<1, 1>>

\* doMovement ran with the element's top edge at the window's lower edge.
C5_Witness == Moved /\ pageYOffset = UpperBound /\ last.ratio = <<1, 1>>

\* C6: each bias of the configuration shifts its bound: start is
\* offsetTop - innerHeight + start bias and stop is offsetTop + offsetHeight +
\* stop bias, for the geometry read by the constructor.
C6_BiasesShiftBounds ==
    pc = "live" =>
        /\ this.start = built.offsetTop - built.innerHeight + StartBias
        /\ this.stop = built.offsetTop + built.offsetHeight + StopBias

\* C7: while the width has been below breakpoint at construction and at every
\* resize since, doMovement is not called and the background position is the
\* start position.
C7_DisabledWhileNarrow ==
    (pc = "live" /\ narrow) =>
        /\ last.moved = 0
        /\ backgroundPosition = StartPosition

C9_Original ==
    pc = "live" =>
        /\ backgroundPosition = <<"center", Written, "px">>
        /\ IsInteger(Written)

\* C9, amended: every value written is "center {number}px"; init writes the
\* integer startOffset; doMovement writes startOffset - ratio * distance
\* unrounded, an integer only if range divides (scrollTop - lowerBound) *
\* distance.
C9_Amended ==
    pc = "live" =>
        /\ backgroundPosition = <<"center", Written, "px">>
        /\ (last.op = "new" /\ last.moved = 0)
              => backgroundPosition = StartPosition
        /\ (Moved /\ IsInteger(Written))
              => ((pageYOffset - LowerBound) * this.distance) % (-Range) = 0

\* doMovement wrote a number that is not an integer.
C9_Witness == Moved /\ ~IsInteger(Written)

\* C10 as stated: when doMovement is reached through the gate with the
\* geometry as the constructor read it, the ratio is in [0,1] and the offset
\* written is between startOffset - distance and startOffset, for every start
\* bias.
C10_Original ==
    (Moved /\ GeometryAsBuilt) =>
        /\ Leq(<<0, 1>>, last.ratio)
        /\ Leq(last.ratio, <<1, 1>>)
        /\ Between(Written, this.startOffset - this.distance, this.startOffset)

\* C10, amended: the same, for a start bias >= 0 (an absent bias is 0).
C10_Amended ==
    (Moved /\ GeometryAsBuilt /\ StartBias >= 0) =>
        /\ Leq(<<0, 1>>, last.ratio)
        /\ Leq(last.ratio, <<1, 1>>)
        /\ Between(Written, this.startOffset - this.distance, this.startOffset)

\* doMovement ran on an unchanged page for an instance with a positive start
\* bias.
C10_Witness == Moved /\ GeometryAsBuilt /\ StartBias > 0

====
